---- MODULE Spec2Model ----
(***************************************************************************)
(* A model of the command generator `ai`: the concurrent fan-out of        *)
(* getCommands (goroutines, a buffered channel, a WaitGroup and the        *)
(* collector loop), the per-call pipeline of makeAPICall (status check,    *)
(* decoding, candidate extraction, sanitizing) and the pure helpers        *)
(* extractCandidates and sanitizeToSingleCommand.                          *)
(*                                                                         *)
(* A text is a sequence of one-character strings, so that trimming, the    *)
(* two regular expressions and the prefix stripping are computed on        *)
(* characters as the Go code computes them.                                *)
(***************************************************************************)
EXTENDS Integers, Sequences, FiniteSets, TLC

\* ------------------------------------------------------------------ bounds

\* Largest -n value (number of concurrent calls) the model explores.
MaxCalls == 3
\* Largest elapsed duration of one call, in abstract ticks.
MaxDur == 2
\* Largest number of pieces a candidate text of the sanitizer harness is built of.
MaxPieces == 4
\* Sizes of the decoded responses the extraction harness enumerates: candidates per
\* response, parts per candidate, output items per response, content parts per item.
MaxCandidates == 1
MaxParts == 2
MaxItems == 1
MaxContent == 2
\* The longest command line of the argument harness, the program name not counted.
MaxArgs == 5

\* ------------------------------------------------------------- text helpers

Min(S) == CHOOSE x \in S : \A y \in S : x <= y
Max(S) == CHOOSE x \in S : \A y \in S : x >= y

RECURSIVE Concat(_)
Concat(ss) == IF ss = <<>> THEN <<>> ELSE Head(ss) \o Concat(Tail(ss))

Range(s) == {s[i] : i \in 1..Len(s)}

\* unicode.IsSpace restricted to the characters the model's texts are made of.
IsSpace(c) == c \in {" ", "\t", "\n", "\r"}

\* strings.TrimSpace
TrimSpace(s) ==
  LET idx == {i \in 1..Len(s) : ~IsSpace(s[i])}
  IN  IF idx = {} THEN <<>> ELSE SubSeq(s, Min(idx), Max(idx))

\* strings.HasPrefix(s[p-1:], pre), with p a 1-based position
HasPrefixAt(s, p, pre) ==
  /\ p >= 1
  /\ p + Len(pre) - 1 <= Len(s)
  /\ SubSeq(s, p, p + Len(pre) - 1) = pre

\* A faulty prefix cut that drops len(pre) characters without testing for pre.
trimPrefixUnchecked(s, pre) ==
  IF Len(s) >= Len(pre) THEN SubSeq(s, Len(pre) + 1, Len(s)) ELSE s

\* strings.TrimPrefix
TrimPrefix(s, pre) ==
  IF HasPrefixAt(s, 1, pre) THEN SubSeq(s, Len(pre) + 1, Len(s)) ELSE s

\* strings.IndexByte, 1-based; 0 when the byte does not occur (Go's -1)
IndexByte(s, c) ==
  LET idx == {i \in 1..Len(s) : s[i] = c}
  IN  IF idx = {} THEN 0 ELSE Min(idx)

\* ------------------------------------------------------------- the sanitizer

\* The backquote character U+0060, which a TLA+ string cannot hold, is the atom "bq".
BQ == "bq"
Fence == <<BQ, BQ, BQ>>
NL == <<"\n">>
LangTags == { <<>>, <<"s", "h">>, <<"b", "a", "s", "h">>, <<"z", "s", "h">> }
DollarMarker == <<"$", " ">>
AngleMarker == <<">", " ">>

\* codeBlockRe = (?s)FENCE(?:sh|bash|zsh)?\n(.*?)\nFENCE, FENCE being three backquotes.
\* Where the opening part FENCE(?:sh|bash|zsh)?\n matches in s, each as
\* <<start of the match, start of group 1>>.
codeBlockOpens(s) ==
  { <<x[1], x[1] + Len(Fence) + Len(x[2]) + 1>> :
      x \in {y \in (1..Len(s)) \X LangTags : HasPrefixAt(s, y[1], Fence \o y[2] \o NL)} }

\* Where the closing part \nFENCE matches in s.
codeBlockCloses(s) == {e \in 1..Len(s) : HasPrefixAt(s, e, NL \o Fence)}

\* codeBlockRe.FindStringSubmatch(s): the leftmost match, its group 1 the shortest
\* one (.*? is lazy).
codeBlockRe(s) ==
  LET closes == codeBlockCloses(s)
      ms == {o \in codeBlockOpens(s) : \E e \in closes : e >= o[2]}
  IN  IF ms = {} THEN [matched |-> FALSE, group |-> <<>>]
      ELSE LET p == Min({o[1] : o \in ms})
               c == (CHOOSE o \in ms : o[1] = p)[2]
               e == Min({x \in closes : x >= c})
           IN  [matched |-> TRUE, group |-> SubSeq(s, c, e - 1)]

\* firstLineRe.FindString(s), firstLineRe = (?m)^[^\n#;][^\n]*: the first line whose
\* first character is none of newline, '#' and ';', up to its end; <<>> on no match.
firstLineRe(s) ==
  LET starts == {p \in 1..Len(s) :
                   /\ p = 1 \/ s[p - 1] = "\n"
                   /\ s[p] \notin {"\n", "#", ";"}}
  IN  IF starts = {} THEN <<>>
      ELSE LET p == Min(starts)
               nls == {q \in p..Len(s) : s[q] = "\n"}
               e == IF nls = {} THEN Len(s) ELSE Min(nls) - 1
           IN  SubSeq(s, p, e)

\* A faulty sanitizer that lacks the final trim.
sanitizeWithoutFinalTrim(s) ==
  LET t0 == TrimSpace(s)
      m  == codeBlockRe(t0)
      t1 == IF m.matched THEN TrimSpace(m.group) ELSE t0
      fl == firstLineRe(t1)
      t2 == IF fl # <<>> THEN TrimSpace(fl) ELSE t1
      i  == IndexByte(t2, "\n")
      t3 == IF i >= 1 THEN TrimSpace(SubSeq(t2, 1, i - 1)) ELSE t2
      t4 == TrimPrefix(t3, DollarMarker)
  IN  TrimPrefix(t4, AngleMarker)

sanitizeToSingleCommand(s) ==
  LET t0 == TrimSpace(s)
      m  == codeBlockRe(t0)
      t1 == IF m.matched THEN TrimSpace(m.group) ELSE t0
      fl == firstLineRe(t1)
      t2 == IF fl # <<>> THEN TrimSpace(fl) ELSE t1
      i  == IndexByte(t2, "\n")
      t3 == IF i >= 1 THEN TrimSpace(SubSeq(t2, 1, i - 1)) ELSE t2
      t4 == TrimPrefix(t3, DollarMarker)
      t5 == TrimPrefix(t4, AngleMarker)
  IN  TrimSpace(t5)

\* ------------------------------------------------------ candidate extraction

\* A decoded responseResp: Candidates is a sequence of candidates, each the sequence
\* of its Content.Parts texts; Output is a sequence of outputItem, each with its Text
\* and the texts of its Content parts. The other fields are never read.
ZeroRR == [Candidates |-> <<>>, OutputText |-> <<>>, Output |-> <<>>]

NonBlank(t) == TrimSpace(t) # <<>>

\* The non-blank texts of a sequence of parts, in order (the inner loops at
\* extractCandidates and at the output items).
RECURSIVE nonBlankTexts(_)
nonBlankTexts(parts) ==
  IF parts = <<>> THEN <<>>
  ELSE (IF NonBlank(Head(parts)) THEN <<Head(parts)>> ELSE <<>>)
         \o nonBlankTexts(Tail(parts))

RECURSIVE candidateParts(_)
candidateParts(cands) ==
  IF cands = <<>> THEN <<>>
  ELSE nonBlankTexts(Head(cands)) \o candidateParts(Tail(cands))

extractCandidates(rr) ==
  LET out == candidateParts(rr.Candidates)
  IN  IF Len(out) = 0 /\ rr.OutputText # <<>> THEN <<rr.OutputText>> ELSE out

\* The loop over rr.Output in makeAPICall.
RECURSIVE outputItemTexts(_)
outputItemTexts(items) ==
  IF items = <<>> THEN <<>>
  ELSE LET it == Head(items)
       IN  (IF NonBlank(it.Text) THEN <<it.Text>>
            ELSE IF Len(it.Content) > 0 THEN nonBlankTexts(it.Content)
            ELSE <<>>)
             \o outputItemTexts(Tail(items))

\* The candidates makeAPICall ends up with for a decoded response.
candidatesOf(rr) ==
  LET c1 == extractCandidates(rr)
      c2 == IF Len(c1) = 0 /\ rr.OutputText # <<>> THEN <<rr.OutputText>> ELSE c1
  IN  IF Len(c2) = 0 THEN outputItemTexts(rr.Output) ELSE c2

\* A faulty loop that inserts every sanitized candidate, the empty ones too.
RECURSIVE commandsOfUnfiltered(_)
commandsOfUnfiltered(cands) ==
  IF cands = <<>> THEN <<>>
  ELSE <<sanitizeToSingleCommand(Head(cands))>> \o commandsOfUnfiltered(Tail(cands))

\* The commands of a call: the non-empty sanitized candidates, in order.
RECURSIVE commandsOf(_)
commandsOf(cands) ==
  IF cands = <<>> THEN <<>>
  ELSE LET cmd == sanitizeToSingleCommand(Head(cands))
       IN  (IF cmd # <<>> THEN <<cmd>> ELSE <<>>) \o commandsOf(Tail(cands))

\* ----------------------------------------------------------- one API call

\* The bytes of a response body, by what json.Unmarshal makes of them. The empty
\* body is not valid JSON.
EmptyBytes == [valid |-> FALSE, rr |-> ZeroRR]

\* An error value; NoError is Go's nil.
NoError == [kind |-> "nil", code |-> 0, text |-> EmptyBytes]
NetError(e) == [kind |-> "net", code |-> e, text |-> EmptyBytes]
\* fmt.Errorf("status %d: %s", resp.StatusCode, string(respData))
StatusError(code, respData) == [kind |-> "status", code |-> code, text |-> respData]
DecodeError == [kind |-> "decode", code |-> 0, text |-> EmptyBytes]

\* The status test of makeAPICall.
statusFails(code) == code >= 400

\* What httpClient.Do and the read of the body give: doErr is 0 (no error) or the
\* network error; readErr says that ioReadAll failed; bytes is the body.
\* makeAPICall sends exactly this apiResult on the channel.
makeAPICall(resp, dur, verb) ==
  IF resp.doErr # 0
  THEN [result |-> [Commands |-> <<>>, Duration |-> dur, RawResponse |-> <<>>,
                    Error |-> NetError(resp.doErr)],
        err |-> NetError(resp.doErr)]
  ELSE
    LET read == ~resp.readErr
        respData == IF read THEN resp.bytes ELSE EmptyBytes
        rawResponse == IF verb /\ read THEN <<resp.bytes>> ELSE <<>>
        failed(e) == [result |-> [Commands |-> <<>>, Duration |-> dur,
                                  RawResponse |-> rawResponse, Error |-> e],
                      err |-> e]
    IN  IF statusFails(resp.status) THEN failed(StatusError(resp.status, respData))
        ELSE IF read /\ ~resp.bytes.valid THEN failed(DecodeError)
        \* respData == nil: the streaming decode reads the body ioReadAll closed
        ELSE IF ~read THEN failed(DecodeError)
        ELSE [result |-> [Commands |-> commandsOf(candidatesOf(resp.bytes.rr)),
                          Duration |-> dur, RawResponse |-> rawResponse,
                          Error |-> NoError],
              err |-> NoError]

\* ------------------------------------------------- aggregation in getCommands

\* A faulty collector in which a later failure replaces the recorded one.
lastErrorWins(firstErr, err) ==
  IF err # NoError THEN err ELSE firstErr

\* The collector's update of firstError for one received result.
nextFirstError(firstErr, err) ==
  IF err # NoError /\ firstErr = NoError THEN err ELSE firstErr

\* A faulty collector that puts each received result in front.
collectInFront(all, r) == <<r>> \o all

\* allResults = append(allResults, result.result)
collect(all, r) == Append(all, r)

\* A faulty deduplication step that never consults seen.
dedupStepUnchecked(st, cmd) ==
  [seen |-> st.seen \cup {cmd}, unique |-> Append(st.unique, cmd)]

\* One step of the deduplication loop: cmd is appended unless already seen.
dedupStep(st, cmd) ==
  IF cmd \in st.seen THEN st
  ELSE [seen |-> st.seen \cup {cmd}, unique |-> Append(st.unique, cmd)]

RECURSIVE dedupCommands(_, _)
dedupCommands(st, cmds) ==
  IF cmds = <<>> THEN st
  ELSE dedupCommands(dedupStep(st, Head(cmds)), Tail(cmds))

RECURSIVE dedupResults(_, _)
dedupResults(st, all) ==
  IF all = <<>> THEN st
  ELSE dedupResults(dedupCommands(st, Head(all).Commands), Tail(all))

\* The unique list the two nested loops over allResults build.
uniqueCommands(all) == dedupResults([seen |-> {}, unique |-> <<>>], all).unique

\* A faulty total: the largest duration instead of the sum.
largestDuration(all) ==
  IF all = <<>> THEN 0 ELSE Max({all[k].Duration : k \in 1..Len(all)})

\* totalDuration += result.Duration over allResults
RECURSIVE sumDurations(_)
sumDurations(all) ==
  IF all = <<>> THEN 0 ELSE Head(all).Duration + sumDurations(Tail(all))

\* Go's integer division of two durations (truncating; both are non-negative here).
averageDuration(total, n) == total \div n

\* ------------------------------------------------------------ the responses

RRa == [ZeroRR EXCEPT !.OutputText = <<"a">>]
\* b behind a prompt marker, and a fenced block whose first line is a.
RRba ==
  [ZeroRR EXCEPT !.Candidates =
     << << <<"$", " ", "b", " ">>,
           Fence \o <<"s", "h">> \o NL \o <<"a">> \o NL \o <<"b">> \o NL \o Fence >> >>]
RRblank == [ZeroRR EXCEPT !.OutputText = <<" ">>]

HttpResp(status, readErr, bytes) ==
  [doErr |-> 0, status |-> status, readErr |-> readErr, bytes |-> bytes]
DoFailed(e) ==
  [doErr |-> e, status |-> 0, readErr |-> FALSE, bytes |-> EmptyBytes]

\* What the network may answer to one call of the wave: a transport error, an error
\* status, a body that is not JSON, and three decodable bodies.
WaveResponses ==
  { DoFailed(1),
    HttpResp(404, FALSE, EmptyBytes),
    HttpResp(200, FALSE, EmptyBytes),
    HttpResp(200, FALSE, [valid |-> TRUE, rr |-> RRa]),
    HttpResp(200, FALSE, [valid |-> TRUE, rr |-> RRba]),
    HttpResp(200, FALSE, [valid |-> TRUE, rr |-> RRblank]) }

\* ------------------------------------------------------------------- state

\* ---------------------------------------------------------- main's arguments

\* strconv.Atoi on a text of characters: an optional sign and decimal digits; the
\* value is 0 when the text is no number. (No bounded text is out of int's range.)
IsDigit(c) == c \in {"0", "1", "2", "3", "4", "5", "6", "7", "8", "9"}
DigitValue(c) ==
  CASE c = "0" -> 0 [] c = "1" -> 1 [] c = "2" -> 2 [] c = "3" -> 3 [] c = "4" -> 4
    [] c = "5" -> 5 [] c = "6" -> 6 [] c = "7" -> 7 [] c = "8" -> 8 [] c = "9" -> 9
RECURSIVE DigitsValue(_)
DigitsValue(ds) ==
  IF ds = <<>> THEN 0
  ELSE 10 * DigitsValue(SubSeq(ds, 1, Len(ds) - 1)) + DigitValue(ds[Len(ds)])
Atoi(s) ==
  LET signed == s # <<>> /\ Head(s) \in {"+", "-"}
      ds == IF signed THEN Tail(s) ELSE s
      ok == ds # <<>> /\ \A k \in 1..Len(ds) : IsDigit(ds[k])
  IN  [ok |-> ok,
       value |-> IF ~ok THEN 0
                 ELSE IF Head(s) = "-" THEN 0 - DigitsValue(ds) ELSE DigitsValue(ds)]

\* strings.Join(elems, " ")
RECURSIVE Join(_)
Join(elems) ==
  IF elems = <<>> THEN <<>>
  ELSE IF Len(elems) = 1 THEN Head(elems)
  ELSE Head(elems) \o <<" ">> \o Join(Tail(elems))

DashV == <<"-", "v">>
DashN == <<"-", "n">>

\* The flag loop of main from index i on (os.Args[i] is args[i + 1]); st holds
\* verbose, numCommands, taskStart and exit (0 while the loop has not exited).
\* The break of the default case leaves the switch, not the loop.
RECURSIVE flagLoop(_, _, _)
flagLoop(args, i, st) ==
  IF i >= Len(args) THEN st
  ELSE LET a == args[i + 1]
       IN  IF a = DashV
           THEN flagLoop(args, i + 1, [st EXCEPT !.verbose = TRUE, !.taskStart = i + 1])
           ELSE IF a = DashN
           THEN IF i + 1 >= Len(args)
                THEN [st EXCEPT !.exit = 2]
                ELSE LET n == Atoi(args[i + 2])
                     IN  IF ~n.ok \/ n.value < 1
                         THEN [st EXCEPT !.numCommands = n.value, !.exit = 2]
                         ELSE flagLoop(args, i + 2,
                                       [st EXCEPT !.numCommands = n.value,
                                                  !.taskStart = i + 2])
           ELSE flagLoop(args, i + 1, [st EXCEPT !.taskStart = i])

\* main up to the task description: exit is 2 when main has left with os.Exit(2),
\* and 0 when it goes on with the task.
parseArgs(args, token) ==
  LET st0 == [verbose |-> FALSE, numCommands |-> 3, taskStart |-> 1, exit |-> 0]
      st  == IF Len(args) < 2 THEN [st0 EXCEPT !.exit = 2] ELSE flagLoop(args, 1, st0)
      left == st.exit = 2 \/ st.taskStart >= Len(args) \/ ~token
  IN  [exit |-> IF left THEN 2 ELSE 0,
       verbose |-> st.verbose,
       numCommands |-> st.numCommands,
       task |-> IF left THEN <<>>
                ELSE Join(SubSeq(args, st.taskStart + 1, Len(args)))]

\* -------------------------------------------------------------- the selection

\* A faulty selection that takes the first command for every valid number.
selectAlwaysFirst(cmds, line) ==
  LET n == Atoi(TrimSpace(line))
  IN  IF ~n.ok \/ n.value < 1 \/ n.value > Len(cmds)
      THEN [choice |-> <<>>, err |-> TRUE]
      ELSE [choice |-> cmds[1], err |-> FALSE]

\* selectCommand on the line read from stdin: err says "invalid selection".
selectCommand(cmds, line) ==
  LET n == Atoi(TrimSpace(line))
  IN  IF ~n.ok \/ n.value < 1 \/ n.value > Len(cmds)
      THEN [choice |-> <<>>, err |-> TRUE]
      ELSE [choice |-> cmds[n.value], err |-> FALSE]

\* What the user may type: a number, a number between blanks, zero, no number,
\* and nothing (end of input).
StdinLines ==
  { <<"1", "\n">>, <<" ", "2", " ", "\n">>, <<"0", "\n">>, <<"x", "\n">>, <<>> }

\* What cmd.Run gives: nil, an *exec.ExitError with the command's exit status, or
\* another error (the shell could not be started).
RunNil == [kind |-> "nil", code |-> 0]
RunExit(c) == [kind |-> "exit", code |-> c]
RunStartError == [kind |-> "start", code |-> 0]
RunOutcomes == {RunNil, RunExit(3), RunStartError}

VARIABLES
  numCommands,   \* -n, the number of concurrent calls
  verbose,       \* -v
  pcMain,        \* where the goroutine running main and getCommands is
  launched,      \* the loop counter i of the launch loop
  wg,            \* the WaitGroup's counter
  pcCall,        \* per goroutine: "idle", "running", "sent" (before wg.Done), "done"
  pcCloser,      \* the closing goroutine: "idle", "waiting", "closed"
  results,       \* the buffered channel: the apiResults sent and not yet received
  closed,        \* whether the channel is closed
  allResults,    \* the collector's allResults
  firstError,    \* the collector's firstError
  unique,        \* the deduplicated commands
  totalDuration, \* the summed duration
  ret,           \* getCommands' returned []apiCallResult (<<>> is nil)
  retErr,        \* getCommands' returned error
  printed,       \* what printVerboseOutput reported: total, calls, average
  exitCode,      \* the exit code once main has exited, -1 before
  completed,     \* history: the sends in their order, each with its goroutine
  typed,         \* history: the line selectCommand read from stdin, <<>> before
  choice,        \* main's choice, the selected command
  executed,      \* history: the commands the shell has run
  ctxDone,       \* whether the context given to getCommands is cancelled
  got,           \* per goroutine: what its HTTP exchange gave, before the send
  outcomes,      \* under a cancellable context: makeAPICall's result per exchange
  arg, out, applied  \* the harness of the pure functions

vars == <<numCommands, verbose, pcMain, launched, wg, pcCall, pcCloser, results,
          closed, allResults, firstError, unique, totalDuration, ret, retErr,
          printed, exitCode, completed, typed, choice, executed, ctxDone, got,
          outcomes, arg, out, applied>>

mainVars == <<numCommands, verbose, pcMain, launched, wg, pcCall, pcCloser, results,
              closed, allResults, firstError, unique, totalDuration, ret, retErr,
              printed, exitCode, completed, typed, choice, executed, ctxDone, got,
              outcomes>>
shellVars == <<typed, choice, executed>>
ctxVars == <<ctxDone, got, outcomes>>
harnessVars == <<arg, out, applied>>

Calls == 1..MaxCalls
\* A goroutine that holds no response: before its exchange and after its send.
NoExchange == [resp |-> DoFailed(0), dur |-> 0]
NoPrint == [total |-> 0, calls |-> 0, average |-> 0]

\* The state when getCommands has been entered and nothing launched yet.
MainInit ==
  /\ numCommands \in 1..MaxCalls
  /\ verbose \in BOOLEAN
  /\ pcMain = "launch"
  /\ launched = 0
  /\ wg = 0
  /\ pcCall = [i \in Calls |-> "idle"]
  /\ pcCloser = "idle"
  /\ results = <<>>
  /\ closed = FALSE
  /\ allResults = <<>>
  /\ firstError = NoError
  /\ unique = <<>>
  /\ totalDuration = 0
  /\ ret = <<>>
  /\ retErr = NoError
  /\ printed = NoPrint
  /\ exitCode = -1
  /\ completed = <<>>
  /\ typed = <<>>
  /\ choice = <<>>
  /\ executed = <<>>
  /\ ctxDone = FALSE
  /\ got = [i \in Calls |-> NoExchange]
  /\ outcomes = <<>>

\* The harness at rest, and main at rest.
HarnessIdle == arg = <<>> /\ out = <<>> /\ applied = FALSE
MainIdle ==
  /\ numCommands = 1 /\ verbose = FALSE /\ pcMain = "idle" /\ launched = 0 /\ wg = 0
  /\ pcCall = [i \in Calls |-> "idle"] /\ pcCloser = "idle" /\ results = <<>>
  /\ closed = FALSE /\ allResults = <<>> /\ firstError = NoError /\ unique = <<>>
  /\ totalDuration = 0 /\ ret = <<>> /\ retErr = NoError /\ printed = NoPrint
  /\ exitCode = -1 /\ completed = <<>> /\ typed = <<>> /\ choice = <<>>
  /\ executed = <<>> /\ ctxDone = FALSE /\ got = [i \in Calls |-> NoExchange]
  /\ outcomes = <<>>

Init == MainInit /\ HarnessIdle

\* --------------------------------------------------------------- getCommands

\* A faulty launch loop that runs once too often.
launchOneTooMany == launched <= numCommands

\* for i := 0; i < numConcurrentCalls; i++
launchMore == launched < numCommands

\* wg.Add(1); go makeAPICall()
Launch ==
  /\ pcMain = "launch"
  /\ launchMore
  /\ launched' = launched + 1
  /\ wg' = wg + 1
  /\ pcCall' = [pcCall EXCEPT ![launched + 1] = "running"]
  /\ UNCHANGED harnessVars
  /\ UNCHANGED shellVars
  /\ UNCHANGED ctxVars
  /\ UNCHANGED <<numCommands, verbose, pcMain, pcCloser, results, closed, allResults,
                 firstError, unique, totalDuration, ret, retErr, printed, exitCode,
                 completed>>

\* go func() { wg.Wait(); close(results) }()
StartCloser ==
  /\ pcMain = "launch"
  /\ ~launchMore
  /\ pcCloser' = "waiting"
  /\ pcMain' = "collect"
  /\ UNCHANGED harnessVars
  /\ UNCHANGED shellVars
  /\ UNCHANGED ctxVars
  /\ UNCHANGED <<numCommands, verbose, launched, wg, pcCall, results, closed,
                 allResults, firstError, unique, totalDuration, ret, retErr, printed,
                 exitCode, completed>>

\* A channel that is one place short.
chanCapOneShort == numCommands - 1

\* make(chan apiResult, numConcurrentCalls)
chanCap == numCommands

\* Goroutine i runs makeAPICall up to its one send on the channel, which has room
\* for numConcurrentCalls results.
CallSend(i) ==
  /\ pcCall[i] = "running"
  /\ Len(results) < chanCap
  /\ \E resp \in WaveResponses, dur \in 1..MaxDur :
       LET r == makeAPICall(resp, dur, verbose)
       IN  /\ results' = Append(results, r)
           /\ completed' = Append(completed, [call |-> i, r |-> r])
  /\ pcCall' = [pcCall EXCEPT ![i] = "sent"]
  /\ UNCHANGED harnessVars
  /\ UNCHANGED shellVars
  /\ UNCHANGED ctxVars
  /\ UNCHANGED <<numCommands, verbose, pcMain, launched, wg, pcCloser, closed,
                 allResults, firstError, unique, totalDuration, ret, retErr, printed,
                 exitCode>>

\* The deferred wg.Done() of goroutine i.
CallDone(i) ==
  /\ pcCall[i] = "sent"
  /\ wg' = wg - 1
  /\ pcCall' = [pcCall EXCEPT ![i] = "done"]
  /\ UNCHANGED harnessVars
  /\ UNCHANGED shellVars
  /\ UNCHANGED ctxVars
  /\ UNCHANGED <<numCommands, verbose, pcMain, launched, pcCloser, results, closed,
                 allResults, firstError, unique, totalDuration, ret, retErr, printed,
                 exitCode, completed>>

\* A faulty closing goroutine that does not wait.
closeWithoutWaiting == TRUE

\* wg.Wait() returns
waitDone == wg = 0

\* The closing goroutine: close(results) once wg.Wait() has returned.
Close ==
  /\ pcCloser = "waiting"
  /\ waitDone
  /\ closed' = TRUE
  /\ pcCloser' = "closed"
  /\ UNCHANGED harnessVars
  /\ UNCHANGED shellVars
  /\ UNCHANGED ctxVars
  /\ UNCHANGED <<numCommands, verbose, pcMain, launched, wg, pcCall, results,
                 allResults, firstError, unique, totalDuration, ret, retErr, printed,
                 exitCode, completed>>

\* One iteration of for result := range results.
Receive ==
  /\ pcMain = "collect"
  /\ results # <<>>
  /\ firstError' = nextFirstError(firstError, Head(results).err)
  /\ allResults' = collect(allResults, Head(results).result)
  /\ results' = Tail(results)
  /\ UNCHANGED harnessVars
  /\ UNCHANGED shellVars
  /\ UNCHANGED ctxVars
  /\ UNCHANGED <<numCommands, verbose, pcMain, launched, wg, pcCall, pcCloser, closed,
                 unique, totalDuration, ret, retErr, printed, exitCode,
                 completed>>

\* The range loop ends: the channel is closed and drained.
CollectEnd ==
  /\ pcMain = "collect"
  /\ results = <<>>
  /\ closed
  /\ pcMain' = "check"
  /\ UNCHANGED harnessVars
  /\ UNCHANGED shellVars
  /\ UNCHANGED ctxVars
  /\ UNCHANGED <<numCommands, verbose, launched, wg, pcCall, pcCloser, results,
                 closed, allResults, firstError, unique, totalDuration, ret, retErr,
                 printed, exitCode, completed>>

\* if firstError != nil { return nil, firstError }
ReturnError ==
  /\ pcMain = "check"
  /\ firstError # NoError
  /\ ret' = <<>>
  /\ retErr' = firstError
  /\ pcMain' = "returned"
  /\ UNCHANGED harnessVars
  /\ UNCHANGED shellVars
  /\ UNCHANGED ctxVars
  /\ UNCHANGED <<numCommands, verbose, launched, wg, pcCall, pcCloser, results,
                 closed, allResults, firstError, unique, totalDuration, printed,
                 exitCode, completed>>

\* The deduplication loops.
Dedup ==
  /\ pcMain = "check"
  /\ firstError = NoError
  /\ unique' = uniqueCommands(allResults)
  /\ pcMain' = "sum"
  /\ UNCHANGED harnessVars
  /\ UNCHANGED shellVars
  /\ UNCHANGED ctxVars
  /\ UNCHANGED <<numCommands, verbose, launched, wg, pcCall, pcCloser, results,
                 closed, allResults, firstError, totalDuration, ret, retErr, printed,
                 exitCode, completed>>

\* The summing loop.
SumDurations ==
  /\ pcMain = "sum"
  /\ totalDuration' = sumDurations(allResults)
  /\ pcMain' = "combine"
  /\ UNCHANGED harnessVars
  /\ UNCHANGED shellVars
  /\ UNCHANGED ctxVars
  /\ UNCHANGED <<numCommands, verbose, launched, wg, pcCall, pcCloser, results,
                 closed, allResults, firstError, unique, ret, retErr, printed,
                 exitCode, completed>>

\* return append([]apiCallResult{combinedResult}, allResults...), nil
ReturnResults ==
  /\ pcMain = "combine"
  /\ ret' = << [Commands |-> unique, Duration |-> totalDuration,
                RawResponse |-> <<>>, Error |-> NoError] >> \o allResults
  /\ retErr' = NoError
  /\ pcMain' = "returned"
  /\ UNCHANGED harnessVars
  /\ UNCHANGED shellVars
  /\ UNCHANGED ctxVars
  /\ UNCHANGED <<numCommands, verbose, launched, wg, pcCall, pcCloser, results,
                 closed, allResults, firstError, unique, totalDuration, printed,
                 exitCode, completed>>

\* ---------------------------------------------------------------------- main

\* if err != nil { ...; os.Exit(1) }
MainApiError ==
  /\ pcMain = "returned"
  /\ retErr # NoError
  /\ exitCode' = 1
  /\ pcMain' = "exited"
  /\ UNCHANGED harnessVars
  /\ UNCHANGED shellVars
  /\ UNCHANGED ctxVars
  /\ UNCHANGED <<numCommands, verbose, launched, wg, pcCall, pcCloser, results,
                 closed, allResults, firstError, unique, totalDuration, ret, retErr,
                 printed, completed>>

\* if len(results) == 0 || len(results[0].Commands) == 0 { ...; os.Exit(1) }
MainNoCommands ==
  /\ pcMain = "returned"
  /\ retErr = NoError
  /\ Len(ret) = 0 \/ Len(ret[1].Commands) = 0
  /\ exitCode' = 1
  /\ pcMain' = "exited"
  /\ UNCHANGED harnessVars
  /\ UNCHANGED shellVars
  /\ UNCHANGED ctxVars
  /\ UNCHANGED <<numCommands, verbose, launched, wg, pcCall, pcCloser, results,
                 closed, allResults, firstError, unique, totalDuration, ret, retErr,
                 printed, completed>>

\* printVerboseOutput: the timing lines.
printVerboseOutput(rs) ==
  LET combinedResult == Head(rs)
      individualResults == Tail(rs)
  IN  IF Len(individualResults) > 0
      THEN [total |-> combinedResult.Duration,
            calls |-> Len(individualResults),
            average |-> averageDuration(combinedResult.Duration,
                                        Len(individualResults))]
      ELSE [total |-> combinedResult.Duration, calls |-> 0, average |-> 0]

\* if verbose { printVerboseOutput(results) }, then on to the selection
MainVerbose ==
  /\ pcMain = "returned"
  /\ retErr = NoError
  /\ Len(ret) > 0 /\ Len(ret[1].Commands) > 0
  /\ printed' = IF verbose THEN printVerboseOutput(ret) ELSE printed
  /\ pcMain' = "select"
  /\ UNCHANGED harnessVars
  /\ UNCHANGED shellVars
  /\ UNCHANGED ctxVars
  /\ UNCHANGED <<numCommands, verbose, launched, wg, pcCall, pcCloser, results,
                 closed, allResults, firstError, unique, totalDuration, ret, retErr,
                 exitCode, completed>>

\* choice, err := selectCommand(results[0].Commands); on an error os.Exit(1)
MainSelect ==
  /\ pcMain = "select"
  /\ \E line \in StdinLines :
       LET sel == selectCommand(ret[1].Commands, line)
       IN  /\ typed' = <<line>>
           /\ choice' = sel.choice
           /\ IF sel.err
              THEN exitCode' = 1 /\ pcMain' = "exited"
              ELSE exitCode' = exitCode /\ pcMain' = "run"
  /\ executed' = executed
  /\ UNCHANGED harnessVars
  /\ UNCHANGED ctxVars
  /\ UNCHANGED <<numCommands, verbose, launched, wg, pcCall, pcCloser, results,
                 closed, allResults, firstError, unique, totalDuration, ret, retErr,
                 printed, completed>>

\* runCommand(choice), and the end of main: the exit status of the command after
\* an *exec.ExitError, 1 after another error, 0 when main returns.
MainRun ==
  /\ pcMain = "run"
  /\ \E o \in RunOutcomes :
       /\ executed' = IF o.kind = "start" THEN executed ELSE Append(executed, choice)
       /\ exitCode' = IF o.kind = "exit" THEN o.code
                      ELSE IF o.kind = "start" THEN 1 ELSE 0
  /\ pcMain' = "exited"
  /\ UNCHANGED harnessVars
  /\ UNCHANGED ctxVars
  /\ UNCHANGED <<numCommands, verbose, launched, wg, pcCall, pcCloser, results,
                 closed, allResults, firstError, unique, totalDuration, ret, retErr,
                 printed, completed, typed, choice>>

Next ==
  \/ Launch
  \/ StartCloser
  \/ \E i \in Calls : CallSend(i)
  \/ \E i \in Calls : CallDone(i)
  \/ Close
  \/ Receive
  \/ CollectEnd
  \/ ReturnError
  \/ Dedup
  \/ SumDurations
  \/ ReturnResults
  \/ MainApiError
  \/ MainNoCommands
  \/ MainVerbose
  \/ MainSelect
  \/ MainRun

Spec == Init /\ [][Next]_vars

\* ------------------------------------------- the wave under a cancellable context

\* context.Canceled, as the error of httpClient.Do.
CtxCanceled == 9

\* What an HTTP exchange gives while the context is live: a transport error (the
\* client's timeout among them), and two decodable bodies with one command each.
RRb == [ZeroRR EXCEPT !.OutputText = <<"b">>]
LiveExchanges ==
  { DoFailed(1),
    HttpResp(200, FALSE, [valid |-> TRUE, rr |-> RRa]),
    HttpResp(200, FALSE, [valid |-> TRUE, rr |-> RRb]) }
\* ... and once the context is cancelled: Do fails, or the read of the body does.
CancelledExchanges ==
  { DoFailed(CtxCanceled), HttpResp(200, TRUE, EmptyBytes) }

\* A faulty request that is not bound to the context.
exchangesIgnoringCtx(done) == LiveExchanges

\* The outcomes of httpClient.Do and the read of the body for a request made with
\* http.NewRequestWithContext(ctx, ...).
exchanges(done) == IF done THEN CancelledExchanges ELSE LiveExchanges

\* makeAPICall's result for every exchange of the wave (the duration of an exchange
\* is 1 here). The table is worked out on entry and kept in outcomes.
ExchangeDur == 1
apiResultOf ==
  [x \in [resp : LiveExchanges \cup CancelledExchanges, verb : BOOLEAN] |->
     makeAPICall(x.resp, ExchangeDur, x.verb)]

\* The caller cancels the context.
Cancel ==
  /\ ~ctxDone
  /\ pcMain \in {"launch", "collect"}
  /\ ctxDone' = TRUE
  /\ UNCHANGED harnessVars
  /\ UNCHANGED shellVars
  /\ UNCHANGED <<numCommands, verbose, pcMain, launched, wg, pcCall, pcCloser, results,
                 closed, allResults, firstError, unique, totalDuration, ret, retErr,
                 printed, exitCode, completed, got, outcomes>>

\* Goroutine i: httpClient.Do and the read of the body return.
CallExchange(i) ==
  /\ pcCall[i] = "running"
  /\ \E resp \in exchanges(ctxDone) :
       got' = [got EXCEPT ![i] = [resp |-> resp, dur |-> ExchangeDur]]
  /\ pcCall' = [pcCall EXCEPT ![i] = "responded"]
  /\ UNCHANGED harnessVars
  /\ UNCHANGED shellVars
  /\ UNCHANGED <<numCommands, verbose, pcMain, launched, wg, pcCloser, results, closed,
                 allResults, firstError, unique, totalDuration, ret, retErr, printed,
                 exitCode, completed, ctxDone, outcomes>>

\* Goroutine i: the rest of makeAPICall, up to its one send on the channel.
CallDeliver(i) ==
  /\ pcCall[i] = "responded"
  /\ Len(results) < chanCap
  /\ LET r == outcomes[[resp |-> got[i].resp, verb |-> verbose]]
     IN  /\ results' = Append(results, r)
         /\ completed' = Append(completed, [call |-> i, r |-> r])
  /\ got' = [got EXCEPT ![i] = NoExchange]
  /\ pcCall' = [pcCall EXCEPT ![i] = "sent"]
  /\ UNCHANGED harnessVars
  /\ UNCHANGED shellVars
  /\ UNCHANGED <<numCommands, verbose, pcMain, launched, wg, pcCloser, closed,
                 allResults, firstError, unique, totalDuration, ret, retErr, printed,
                 exitCode, ctxDone, outcomes>>

WaveInit ==
  /\ numCommands \in 1..MaxCalls
  /\ verbose = FALSE
  /\ pcMain = "launch"
  /\ launched = 0
  /\ wg = 0
  /\ pcCall = [i \in Calls |-> "idle"]
  /\ pcCloser = "idle"
  /\ results = <<>>
  /\ closed = FALSE
  /\ allResults = <<>>
  /\ firstError = NoError
  /\ unique = <<>>
  /\ totalDuration = 0
  /\ ret = <<>>
  /\ retErr = NoError
  /\ printed = NoPrint
  /\ exitCode = -1
  /\ completed = <<>>
  /\ typed = <<>>
  /\ choice = <<>>
  /\ executed = <<>>
  /\ ctxDone = FALSE
  /\ got = [i \in Calls |-> NoExchange]
  /\ outcomes = apiResultOf
  /\ HarnessIdle

\* The steps of getCommands and of its goroutines.
WaveStep ==
  \/ Launch
  \/ StartCloser
  \/ \E i \in Calls : CallExchange(i)
  \/ \E i \in Calls : CallDeliver(i)
  \/ \E i \in Calls : CallDone(i)
  \/ Close
  \/ Receive
  \/ CollectEnd
  \/ ReturnError
  \/ Dedup
  \/ SumDurations
  \/ ReturnResults
WaveNext == Cancel \/ WaveStep

\* While a goroutine can take a step, some goroutine takes one in the end: the
\* scheduler does not stop, and an HTTP exchange returns or runs into the client's
\* timeout. Nothing obliges the caller to cancel.
WaveSpec == WaveInit /\ [][WaveNext]_vars /\ WF_vars(WaveStep)

\* ------------------------------------------- the pure functions, on their own

SeqsUpTo(S, n) == UNION {[1..k -> S] : k \in 0..n}

\* sanitizeToSingleCommand on every text made of at most MaxPieces of these pieces.
Pieces ==
  { <<"a">>, <<"b">>, <<" ">>, NL, <<"#">>, <<";">>, DollarMarker, AngleMarker,
    Fence \o NL, Fence \o <<"s", "h">> \o NL, NL \o Fence }
Texts == {Concat(ps) : ps \in SeqsUpTo(Pieces, MaxPieces)}

SanitizeInit == MainIdle /\ arg \in Texts /\ out = <<>> /\ applied = FALSE
ApplySanitize ==
  /\ ~applied
  /\ out' = sanitizeToSingleCommand(arg)
  /\ applied' = TRUE
  /\ UNCHANGED <<arg, mainVars>>
SanitizeSpec == SanitizeInit /\ [][ApplySanitize]_vars

\* The candidates of every decoded response of at most MaxCandidates candidates of
\* at most MaxParts parts and at most MaxItems output items of at most MaxContent
\* content parts, every text one of: empty, blank, "a", "b".
RRTexts == { <<>>, <<" ">>, <<"a">>, <<"b">> }
RRs ==
  [Candidates : SeqsUpTo(SeqsUpTo(RRTexts, MaxParts), MaxCandidates),
   OutputText : RRTexts,
   Output : SeqsUpTo([Text : RRTexts, Content : SeqsUpTo(RRTexts, MaxContent)],
                     MaxItems)]

ExtractInit == MainIdle /\ arg \in RRs /\ out = <<>> /\ applied = FALSE
ApplyExtract ==
  /\ ~applied
  /\ out' = candidatesOf(arg)
  /\ applied' = TRUE
  /\ UNCHANGED <<arg, mainVars>>
ExtractSpec == ExtractInit /\ [][ApplyExtract]_vars

\* makeAPICall on every answer of the network: a transport error, or one of these
\* statuses with a body that cannot be read, is empty, or decodes to a response.
Statuses == {101, 200, 204, 304, 399, 400, 404}
CallBytes == {EmptyBytes} \cup {[valid |-> TRUE, rr |-> rr] : rr \in {ZeroRR, RRa, RRba, RRblank}}
CallResponses ==
  {DoFailed(e) : e \in {1, 2}}
    \cup {HttpResp(st, re, by) : st \in Statuses, re \in BOOLEAN, by \in CallBytes}

CallInit ==
  /\ MainIdle
  /\ arg \in [resp : CallResponses, dur : 1..MaxDur, verb : BOOLEAN]
  /\ out = <<>>
  /\ applied = FALSE
ApplyCall ==
  /\ ~applied
  /\ out' = makeAPICall(arg.resp, arg.dur, arg.verb)
  /\ applied' = TRUE
  /\ UNCHANGED <<arg, mainVars>>
CallSpec == CallInit /\ [][ApplyCall]_vars

\* The command lines of the argument harness: the program name and up to MaxArgs
\* arguments, flags, counts and words; token says that OPENAI_TOKEN is set.
ArgWords == {DashV, DashN, <<"2">>, <<"0">>, <<"l", "s">>, <<"b">>}
Invocations == {<< <<"a", "i">> >> \o rest : rest \in SeqsUpTo(ArgWords, MaxArgs)}
ArgsInit ==
  /\ MainIdle
  /\ arg \in [args : Invocations, token : BOOLEAN]
  /\ out = <<>>
  /\ applied = FALSE
ApplyParseArgs ==
  /\ ~applied
  /\ out' = parseArgs(arg.args, arg.token)
  /\ applied' = TRUE
  /\ UNCHANGED <<arg, mainVars>>
ArgsSpec == ArgsInit /\ [][ApplyParseArgs]_vars
\* ----------------------------------------------------------------- the claims

\* getCommands has returned to main.
Returned == pcMain \in {"returned", "select", "run", "exited"}
\* getCommands has returned a result and no error.
Succeeded == Returned /\ retErr = NoError

\* The sends of goroutine i, in order.
sentBy(i) == SelectSeq(completed, LAMBDA c : c.call = i)
\* The positions in completion order of the calls that failed.
FailedSends == {k \in 1..Len(completed) : completed[k].r.err # NoError}

\* The first occurrences of a list, in order.
FirstSeen(list) ==
  LET F[n \in 0..Len(list)] ==
        IF n = 0 THEN <<>>
        ELSE IF \E k \in 1..(n - 1) : list[k] = list[n] THEN F[n - 1]
        ELSE Append(F[n - 1], list[n])
  IN  F[Len(list)]

\* The command lists of the calls, concatenated in launch order and in completion
\* order.
CommandsByIndex ==
  Concat([i \in 1..numCommands |-> Concat([k \in 1..Len(sentBy(i)) |->
                                             sentBy(i)[k].r.result.Commands])])
CommandsByCompletion ==
  Concat([k \in 1..Len(completed) |-> completed[k].r.result.Commands])

C2_FirstFailure ==
  (Returned /\ FailedSends # {}) =>
    /\ ret = <<>>
    /\ retErr # NoError
    /\ retErr = completed[Min(FailedSends)].r.err

\* All of three calls failed, the first to complete is not the first launched and
\* failed otherwise than it.
C2_Witness ==
  /\ Returned
  /\ numCommands = 3
  /\ FailedSends = {1, 2, 3}
  /\ completed[1].call # 1
  /\ \E k \in 2..3 : completed[k].call = 1 /\ completed[k].r.err # completed[1].r.err

\* C3: past the collector's loop (deduplication, summing, either return) every
\* launched call is finished, and nothing is aggregated or returned before.
C3_Barrier ==
  (\/ pcMain \in {"check", "sum", "combine", "returned", "select", "run", "exited"}
   \/ unique # <<>> \/ totalDuration # 0 \/ ret # <<>> \/ retErr # NoError)
    => /\ launched = numCommands
       /\ \A i \in 1..numCommands : pcCall[i] = "done"
       /\ Len(allResults) = numCommands

\* Three calls were launched and the deduplication has run.
C3_Witness ==
  /\ pcMain = "sum"
  /\ numCommands = 3
  /\ Len(unique) = 2

\* C4: on full success the aggregated list has no string twice and holds exactly the
\* commands the calls produced.
C4_DedupUnion ==
  Succeeded =>
    /\ \A j, k \in 1..Len(ret[1].Commands) :
         ret[1].Commands[j] = ret[1].Commands[k] => j = k
    /\ Range(ret[1].Commands) = Range(CommandsByCompletion)

\* Two commands were produced, one of them more than once.
C4_Witness ==
  /\ Succeeded
  /\ Len(ret[1].Commands) = 2
  /\ Len(CommandsByCompletion) > 2

\* C5: exactly numCommands calls are launched, each sends exactly one outcome and is
\* never started again, and on success the individual results returned after the
\* aggregated one are numCommands many.
C5_OneWave ==
  /\ launched <= numCommands
  /\ pcMain # "launch" => launched = numCommands
  /\ \A i \in Calls :
       /\ i > launched => pcCall[i] = "idle"
       /\ Len(sentBy(i)) = (IF pcCall[i] \in {"sent", "done"} THEN 1 ELSE 0)
  /\ Returned => \A i \in 1..numCommands : Len(sentBy(i)) = 1
  /\ Succeeded => /\ Len(ret) = numCommands + 1
                  /\ Tail(ret) = [k \in 1..numCommands |-> completed[k].r.result]

\* Three calls, a result returned.
C5_Witness ==
  /\ Succeeded
  /\ numCommands = 3
  /\ Len(Tail(ret)) = 3

\* The sum of the durations of the calls 1..n.
RECURSIVE DurationOfCalls(_)
DurationOfCalls(n) ==
  IF n = 0 THEN 0 ELSE sentBy(n)[1].r.result.Duration + DurationOfCalls(n - 1)

\* C6: on full success the aggregated duration is the sum of the calls' durations,
\* and the average printed in verbose mode is that sum divided by the number of calls.
C6_SumAndAverage ==
  Succeeded =>
    /\ ret[1].Duration = DurationOfCalls(numCommands)
    /\ (pcMain = "select" /\ verbose) =>
         /\ printed.total = DurationOfCalls(numCommands)
         /\ printed.calls = numCommands
         /\ printed.average * numCommands <= DurationOfCalls(numCommands)
         /\ DurationOfCalls(numCommands) < (printed.average + 1) * numCommands

\* Three calls of unequal durations, printed in verbose mode with a truncated average.
C6_Witness ==
  /\ pcMain = "select"
  /\ verbose
  /\ numCommands = 3
  /\ printed.total = 5
  /\ printed.average = 1
\* The non-blank texts of a sequence of texts, and the three extraction strategies.
KeepNonBlank(texts) == SelectSeq(texts, NonBlank)
CandidateStrategy(rr) == KeepNonBlank(Concat(rr.Candidates))
OutputTextStrategy(rr) == KeepNonBlank(<<rr.OutputText>>)
OutputItemStrategy(rr) ==
  Concat([k \in 1..Len(rr.Output) |->
            IF NonBlank(rr.Output[k].Text) THEN <<rr.Output[k].Text>>
            ELSE KeepNonBlank(rr.Output[k].Content)])

\* C7: the candidates of a decoded response are those of exactly one strategy, the
\* first of candidate parts, output text and output items that yields a non-blank
\* candidate.
C7_FirstYieldingStrategy ==
  (/\ applied
   /\ \/ CandidateStrategy(arg) # <<>>
      \/ OutputTextStrategy(arg) # <<>>
      \/ OutputItemStrategy(arg) # <<>>)
    => out = (IF CandidateStrategy(arg) # <<>> THEN CandidateStrategy(arg)
              ELSE IF OutputTextStrategy(arg) # <<>> THEN OutputTextStrategy(arg)
              ELSE OutputItemStrategy(arg))

\* C8: when the candidates yield no non-blank text, the output text is the candidate
\* only if it is non-blank; if it is empty or blank, the candidates are those of the
\* output items.
C8_BlankOutputTextFallsThrough ==
  (applied /\ CandidateStrategy(arg) = <<>>)
    => IF NonBlank(arg.OutputText) THEN out = <<arg.OutputText>>
       ELSE out = OutputItemStrategy(arg)

\* C9: a call answered with a status outside 200..299 ends as a failure whose error
\* carries the status and the body text, and contributes no command.
C9_NonSuccessStatusFails ==
  (applied /\ arg.resp.doErr = 0 /\ arg.resp.status \notin 200..299)
    => /\ out.err = StatusError(arg.resp.status,
                                IF arg.resp.readErr THEN EmptyBytes ELSE arg.resp.bytes)
       /\ out.result.Error = out.err
       /\ out.result.Commands = <<>>

\* The lines of a text.
RECURSIVE Lines(_)
Lines(s) ==
  LET i == IndexByte(s, "\n")
  IN  IF i = 0 THEN <<s>>
      ELSE <<SubSeq(s, 1, i - 1)>> \o Lines(SubSeq(s, i + 1, Len(s)))

\* The text after the fenced-block step, and its lines that begin with neither '#'
\* nor ';'.
AfterFence(s) ==
  LET m == codeBlockRe(TrimSpace(s))
  IN  IF m.matched THEN TrimSpace(m.group) ELSE TrimSpace(s)
CommandLines(s) ==
  SelectSeq(Lines(AfterFence(s)), LAMBDA l : l # <<>> /\ l[1] \notin {"#", ";"})

\* C10: the sanitized command comes from the first line that begins with neither '#'
\* nor ';', and is never a line that begins with one of them, also when every line
\* does.
C10_NeverACommentLine ==
  applied =>
    /\ out = <<>> \/ out[1] \notin {"#", ";"}
    /\ CommandLines(arg) # <<>> =>
         out = TrimSpace(TrimPrefix(TrimPrefix(TrimSpace(Head(CommandLines(arg))),
                                               DollarMarker), AngleMarker))
\* A text that begins with an interactive-prompt marker; a text of one line.
StartsWithMarker(t) == HasPrefixAt(t, 1, <<"$", " ">>) \/ HasPrefixAt(t, 1, <<">", " ">>)
SingleLine(t) == IndexByte(t, "\n") = 0

\* C11 as stated: the sanitizer is idempotent, sanitizing the sanitized form of any
\* candidate changes nothing.
C11_Idempotent ==
  applied => sanitizeToSingleCommand(out) = out

\* C11, amended: sanitizing the sanitized form of a candidate changes nothing unless
\* that form still begins with a prompt marker (only one "$ " and one "> " are
\* stripped per application).
C11_IdempotentOnUnmarked ==
  (applied /\ ~StartsWithMarker(out)) => sanitizeToSingleCommand(out) = out

\* A fenced candidate was reduced to a command that begins with no marker.
C11_Witness ==
  /\ applied
  /\ codeBlockRe(TrimSpace(arg)).matched
  /\ out # <<>>
  /\ out # arg
  /\ ~StartsWithMarker(out)

\* C12 as stated: for every one-line text t that does not begin with a marker, "$ " t
\* and "> " t sanitize to what t sanitizes to, the text after the marker kept but for
\* trimming.
C12_MarkerStripped ==
  (applied /\ SingleLine(arg) /\ ~StartsWithMarker(arg)) =>
    /\ sanitizeToSingleCommand(<<"$", " ">> \o arg) = out
    /\ sanitizeToSingleCommand(<<">", " ">> \o arg) = out
    /\ out = TrimSpace(arg)

\* C12, amended: the same for every one-line text t that is not blank and, once
\* trimmed, does not begin with a marker.
C12_MarkerStrippedNonBlank ==
  (/\ applied
   /\ SingleLine(arg)
   /\ TrimSpace(arg) # <<>>
   /\ ~StartsWithMarker(TrimSpace(arg))) =>
    /\ sanitizeToSingleCommand(<<"$", " ">> \o arg) = out
    /\ sanitizeToSingleCommand(<<">", " ">> \o arg) = out
    /\ out = TrimSpace(arg)

\* A one-line text of two words with a blank in front.
C12_Witness ==
  /\ applied
  /\ arg = <<" ", "a", " ", "b">>
  /\ out = <<"a", " ", "b">>
\* A command as a command list may hold it: not empty, of one line, trimmed.
CleanCommand(c) == c # <<>> /\ IndexByte(c, "\n") = 0 /\ TrimSpace(c) = c
CleanList(cmds) == \A k \in 1..Len(cmds) : CleanCommand(cmds[k])

\* C13: in every reachable state every element of every per-call command list (in
\* the channel, in allResults, in the returned results) and of the aggregated list
\* is a non-empty string of one line without blanks at its ends.
C13_CleanCommands ==
  /\ \A k \in 1..Len(completed) : CleanList(completed[k].r.result.Commands)
  /\ \A k \in 1..Len(results) : CleanList(results[k].result.Commands)
  /\ \A k \in 1..Len(allResults) : CleanList(allResults[k].Commands)
  /\ CleanList(unique)
  /\ \A k \in 1..Len(ret) : CleanList(ret[k].Commands)

\* A wave returned commands although one call had only a blank candidate, which
\* gave no command, and another had a marked and a fenced candidate.
C13_Witness ==
  /\ Succeeded
  /\ verbose
  /\ Len(ret) > 1
  /\ ret[1].Commands # <<>>
  /\ \E k \in 2..Len(ret) :
       /\ ret[k].RawResponse = << [valid |-> TRUE, rr |-> RRblank] >>
       /\ ret[k].Commands = <<>>
  /\ \E k \in 2..Len(ret) :
       /\ ret[k].RawResponse = << [valid |-> TRUE, rr |-> RRba] >>
       /\ ret[k].Commands = << <<"b">>, <<"a">> >>
\* The invocations <tool> [-v] [-n <count>] w1 ... wm: the words that follow the
\* flags when args is of that form with m >= 1 words none of which is a flag.
IsFlag(w) == w \in {DashV, DashN}
IsCount(w) == Atoi(w).ok /\ Atoi(w).value >= 1
FlagPrefixes ==
  {<<>>, <<DashV>>}
    \cup {<<DashN, c>> : c \in {w \in ArgWords : IsCount(w)}}
    \cup {<<DashV, DashN, c>> : c \in {w \in ArgWords : IsCount(w)}}
WordsOfForm(args) ==
  {ws \in {SubSeq(args, k, Len(args)) : k \in 2..Len(args)} :
     /\ \A j \in 1..Len(ws) : ~IsFlag(ws[j])
     /\ \E fp \in FlagPrefixes : args = <<Head(args)>> \o fp \o ws}

\* C14: for every invocation <tool> [-v] [-n <count>] w1 ... wm with m >= 1 words
\* that are no flags, main is not left with a usage error and the task description
\* is w1 ... wm joined by single blanks.
C14_TaskIsAllWords ==
  (applied /\ arg.token) =>
    \A ws \in WordsOfForm(arg.args) : out.exit = 0 /\ out.task = Join(ws)
\* The case in which a command may be run: all numCommands calls were made and
\* succeeded, the aggregated list is not empty, and the line typed is an integer k
\* with 1 <= k <= the length of the list.
AllCallsSucceeded ==
  /\ Len(completed) = numCommands
  /\ \A k \in 1..Len(completed) : completed[k].r.err = NoError
TypedNumber == Atoi(TrimSpace(typed[1]))
ValidChoice ==
  /\ typed # <<>>
  /\ TypedNumber.ok
  /\ 1 <= TypedNumber.value /\ TypedNumber.value <= Len(unique)
MayExecute == AllCallsSucceeded /\ unique # <<>> /\ ValidChoice

\* C15: a command is executed only if all calls succeeded, the aggregated list is
\* not empty and the choice is a number k within the list, and it is then the k-th
\* element of the aggregated list; in every other case main ends with exit code 1
\* and no command executed.
C15_ExecuteOnlyTheChoice ==
  /\ (pcMain = "run" \/ executed # <<>>) =>
       /\ MayExecute
       /\ choice = unique[TypedNumber.value]
       /\ ret[1].Commands = unique
       /\ executed \in {<<>>, <<unique[TypedNumber.value]>>}
  /\ (pcMain = "exited" /\ ~MayExecute) => (exitCode = 1 /\ executed = <<>>)

\* The second of two commands was chosen and has been run.
C15_Witness ==
  /\ pcMain = "exited"
  /\ Len(unique) = 2
  /\ typed = << <<" ", "2", " ", "\n">> >>
  /\ executed = <<unique[2]>>
  /\ exitCode = 3
\* A call is outstanding while its HTTP exchange has not returned.
Outstanding(i) == pcCall[i] = "running"
\* Goroutine i has sent its one result, and it is a failure.
EndedInFailure(i) ==
  /\ pcCall[i] \in {"sent", "done"}
  /\ Len(sentBy(i)) = 1
  /\ sentBy(i)[1].r.err # NoError
  /\ sentBy(i)[1].r.result.Commands = <<>>

\* C16: once the context is cancelled, every call that is outstanding ends with a
\* failure (it does not stay pending and no success of it is recorded), and
\* getCommands returns an error and no results.
C16_CancelFailsOutstanding ==
  /\ \A i \in Calls : (ctxDone /\ Outstanding(i)) ~> EndedInFailure(i)
  /\ (ctxDone /\ \E i \in Calls : Outstanding(i)) ~>
       (pcMain = "returned" /\ retErr # NoError /\ ret = <<>>)

\* One call had succeeded, the context was cancelled while another was outstanding,
\* and getCommands returned the cancellation as its error.
C16_Witness ==
  /\ ctxDone
  /\ pcMain = "returned"
  /\ ret = <<>>
  /\ retErr = NetError(CtxCanceled)
  /\ \E k \in 1..Len(completed) : completed[k].r.err = NoError
  /\ \E k \in 1..Len(completed) : completed[k].r.err = NetError(CtxCanceled)

\* The discipline of the result channel: it has room for numCommands results, so a
\* goroutine that is about to send can send; a goroutine sends once; the channel is
\* closed only when all numCommands goroutines are done, so nothing is sent on the
\* closed channel; and the collector leaves its loop with numCommands results.
ChannelDiscipline ==
  /\ chanCap = numCommands
  /\ Len(results) <= chanCap
  /\ \A i \in Calls : pcCall[i] \in {"running", "responded"} => Len(results) < chanCap
  /\ \A i \in Calls :
       Len(sentBy(i)) = (IF pcCall[i] \in {"sent", "done"} THEN 1 ELSE 0)
  /\ closed <=> pcCloser = "closed"
  /\ closed => /\ launched = numCommands
               /\ wg = 0
               /\ \A i \in 1..numCommands : pcCall[i] = "done"
               /\ Len(completed) = numCommands
  /\ pcMain \notin {"launch", "collect"} =>
       (closed /\ results = <<>> /\ Len(allResults) = numCommands)

\* C17: getCommands terminates; no sender blocks on the channel of capacity
\* numCommands, each goroutine sends exactly once, the channel is closed once and
\* only after all goroutines have finished, nothing is sent on the closed channel,
\* and the collector ends after exactly numCommands results.
C17_TerminatesWithoutBlocking ==
  /\ []ChannelDiscipline
  /\ [][closed => (closed' /\ pcCloser' = pcCloser /\ Len(results') <= Len(results))]_vars
  /\ <>(pcMain = "returned")

\* All goroutines have sent before the collector has received anything: the
\* channel is full.
C17_Witness ==
  /\ numCommands >= 2
  /\ Len(results) = numCommands
  /\ allResults = <<>>
  /\ \A i \in 1..numCommands : pcCall[i] \in {"sent", "done"}
====
